---- MODULE Spec2Model ----
(***************************************************************************)
(* Smart Money Tracker v2 (src/streamlit_app.py): the per-symbol signal   *)
(* computation, the scan loop, the 24 hour alert de-duplication kept in   *)
(* st.session_state.sent_signals and the single Telegram send of a run.   *)
(*                                                                         *)
(* Units.  Prices (Close, EMA20, EMA50) are integers in thousandths of a  *)
(* rupee; the emitted price, sl and tp are integers in hundredths (the    *)
(* result of round(x, 2)).  RSI is an integer in 1/RsiScale points.       *)
(* Volumes are integers.  The wall clock is an integer number of ticks,   *)
(* TicksPerSecond ticks to the second; a formatted time stamp            *)
(* ("%Y-%m-%d %H:%M:%S") is the whole number of seconds.                  *)
(*                                                                         *)
(* add_indicators (lines 46-57) is not computed here: the EMA20, EMA50    *)
(* and RSI of the latest row are part of the data frame the model draws,  *)
(* next to the latest Close and the Volume column.                        *)
(*                                                                         *)
(* Sizes.  The symbol lists hold up to MaxLen symbols and scan_count (the *)
(* slider, 50 to 300 in the application) ranges over 1..MaxLen, so that   *)
(* the cut symbols[:scan_count] does cut.  One script run is one thread   *)
(* of control (pc); runs do not overlap in this model.                    *)
(***************************************************************************)
EXTENDS Integers, Sequences, FiniteSets, TLC

\* ------------------------------------------------------------------ bounds
TicksPerSecond == 4
MaxAdvances == 2
MaxLen == 2
RsiScale == 2

\* ------------------------------------------------------- program constants
SL_PCT == 2
TP_PCT == 5
MIN_BARS == 30
RSI_BUY == 55
RSI_SELL == 45
COOLDOWN_HOURS == 24

HourTicks == 3600 * TicksPerSecond
CoolDownTicks == COOLDOWN_HOURS * 3600 * TicksPerSecond

\* Python's None (a missing dict entry, a function returning nothing).
None == [none |-> TRUE]

\* float('nan') in a column of non-negative numbers.
NaN == 0 - 1

isnan(x) == x = NaN

Min(a, b) == IF a < b THEN a ELSE b

RECURSIVE SumSeq(_)
SumSeq(s) == IF s = <<>> THEN 0 ELSE Head(s) + SumSeq(Tail(s))

\* Python's s[a:b] for negative a and b (positions counted from the end).
SliceFromEnd(s, a, b) ==
    LET lo == IF Len(s) - a < 0 THEN 0 ELSE Len(s) - a
        hi == IF Len(s) - b < 0 THEN 0 ELSE Len(s) - b
    IN  SubSeq(s, lo + 1, hi)

\* Python's s[:n] for n >= 0.
Take(s, n) == SubSeq(s, 1, Min(n, Len(s)))

\* datetime.strftime("%Y-%m-%d %H:%M:%S"): the fraction of the second is dropped.
strftime(t) == [stamp |-> t \div TicksPerSecond]

\* datetime.strptime(stamp, "%Y-%m-%d %H:%M:%S"): [t |-> a time on a whole
\* second]; None stands for the ValueError of a text that does not parse.
strptime(s) ==
    IF "stamp" \in DOMAIN s THEN [t |-> s.stamp * TicksPerSecond] ELSE None

\* round(x, 2) of a float x given in units of 0.00001, in hundredths.  On an
\* exact decimal tie the binary double lies on either side: tieUp says which.
round2(x, tieUp) ==
    LET q == x \div 1000
        r == x % 1000
    IN  IF r < 500 THEN q
        ELSE IF r > 500 THEN q + 1
        ELSE IF tieUp THEN q + 1 ELSE q

\* ------------------------------------------------------------ fetch_history
\* resp is what yf.download does for the symbol: it raises, returns no rows,
\* or returns a frame (given here after dropna).
fetch_history(resp) ==
    IF resp.kind = "raise" THEN None
    ELSE IF resp.kind = "empty" THEN None
    ELSE resp

\* ------------------------------------------------- compute_signals_for_symbol
\* Series.mean() as the exact fraction num/den.
mean(s) == [num |-> SumSeq(s), den |-> Len(s)]

\* len(hist): the number of rows of the frame.
rows(hist) == Len(hist.Volume)

\* A baseline whose slice runs to the end of the column, the latest bar included.
avg_vol_with_today(hist) ==
    IF rows(hist) >= 22
    THEN mean(SliceFromEnd(hist.Volume, 21, 0))
    ELSE mean(hist.Volume)

avg_vol(hist) ==
    IF rows(hist) >= 22
    THEN mean(SliceFromEnd(hist.Volume, 21, 1))
    ELSE mean(hist.Volume)

today_vol(hist) == hist.Volume[Len(hist.Volume)]

vol_spike(hist) ==
    LET a == avg_vol(hist)
    IN  (a.num > 0) /\ (today_vol(hist) * a.den > 2 * a.num)

ema_up(hist) == hist.EMA20 > hist.EMA50

ema_down(hist) == hist.EMA20 < hist.EMA50

rsi_val(hist) == IF isnan(hist.RSI) THEN None ELSE [v |-> hist.RSI]

\* A buy rule that lets an rsi of exactly 55 through.
buy_cond_at_threshold(hist) ==
    /\ ema_up(hist)
    /\ rsi_val(hist) # None /\ rsi_val(hist).v >= RSI_BUY * RsiScale
    /\ vol_spike(hist)

buy_cond(hist) ==
    /\ ema_up(hist)
    /\ rsi_val(hist) # None /\ rsi_val(hist).v > RSI_BUY * RsiScale
    /\ vol_spike(hist)

sell_cond(hist) ==
    /\ ema_down(hist)
    /\ rsi_val(hist) # None /\ rsi_val(hist).v < RSI_SELL * RsiScale
    /\ vol_spike(hist)

\* A piece of text; f"RSI {int(rsi_val)}" keeps the integer it prints.
text(label) == [text |-> label]

rsi_text(v) == [text |-> "RSI ", int |-> v \div RsiScale]

\* A list of reasons that puts the RSI text before the trend labels.
reasons_rsi_first(hist) ==
    (IF vol_spike(hist) THEN <<text("Volume spike")>> ELSE <<>>)
    \o (IF rsi_val(hist) # None THEN <<rsi_text(rsi_val(hist).v)>> ELSE <<>>)
    \o (IF ema_up(hist) THEN <<text("20>50 EMA")>> ELSE <<>>)
    \o (IF ema_down(hist) THEN <<text("20<50 EMA")>> ELSE <<>>)

\* The list of reasons (lines 86-94).
reasons(hist) ==
    (IF vol_spike(hist) THEN <<text("Volume spike")>> ELSE <<>>)
    \o (IF ema_up(hist) THEN <<text("20>50 EMA")>> ELSE <<>>)
    \o (IF ema_down(hist) THEN <<text("20<50 EMA")>> ELSE <<>>)
    \o (IF rsi_val(hist) # None THEN <<rsi_text(rsi_val(hist).v)>> ELSE <<>>)

\* ", ".join(parts): the parts with the separator between them.
RECURSIVE join(_)
join(parts) ==
    IF Len(parts) <= 1 THEN parts
    ELSE <<Head(parts), text(", ")>> \o join(Tail(parts))

signal(hist) ==
    IF buy_cond(hist) THEN "BUY"
    ELSE IF sell_cond(hist) THEN "SELL"
    ELSE "None"

sl(hist) ==
    IF signal(hist) = "BUY"
    THEN round2(hist.Close * (100 - SL_PCT), hist.ties.sl)
    ELSE round2(hist.Close * (100 + SL_PCT), hist.ties.sl)

tp(hist) ==
    IF signal(hist) = "BUY"
    THEN round2(hist.Close * (100 + TP_PCT), hist.ties.tp)
    ELSE round2(hist.Close * (100 - TP_PCT), hist.ties.tp)

compute_signals_for_symbol(sym, resp, t) ==
    LET hist == fetch_history(resp)
    IN  IF hist = None \/ rows(hist) < MIN_BARS THEN None
        ELSE IF ~hist.numeric THEN None
        ELSE IF signal(hist) = "None" THEN None
        ELSE [symbol  |-> sym,
              signal  |-> signal(hist),
              price   |-> round2(hist.Close * 100, hist.ties.price),
              sl      |-> sl(hist),
              tp      |-> tp(hist),
              vol     |-> today_vol(hist),
              avg_vol |-> avg_vol(hist).num \div avg_vol(hist).den,
              reasons |-> join(reasons(hist)),
              time    |-> strftime(t)]

\* ------------------------------------------------------------- scan_symbols
\* A loop body that gives up the batch when a symbol yields nothing.
scan_iteration_abort(results, res) ==
    IF res # None THEN Append(results, res) ELSE <<>>

\* A loop body that keeps the batch ordered by descending volume.
scan_iteration_by_volume(results, res) ==
    IF res = None THEN results
    ELSE LET before == SelectSeq(results, LAMBDA r : r.vol >= res.vol)
             after == SelectSeq(results, LAMBDA r : r.vol < res.vol)
         IN  before \o <<res>> \o after

\* One pass of the loop body: results.append(res) when res is truthy.
scan_iteration(results, res) ==
    IF res # None THEN Append(results, res) ELSE results

\* The whole function, for a list of symbols and the provider's answers.
RECURSIVE scan_from(_, _, _, _)
scan_from(results, syms, resp, t) ==
    IF syms = <<>> THEN results
    ELSE scan_from(scan_iteration(results,
                       compute_signals_for_symbol(Head(syms), resp[Head(syms)], t)),
                   Tail(syms), resp, t)

scan_symbols(syms, limit, resp, t) == scan_from(<<>>, Take(syms, limit), resp, t)

\* ------------------------------------------------------------ send_telegram
\* configured: both secrets are set; post: what requests.post does ("200", any
\* other status, or an exception, a timeout included).
send_telegram(configured, post) ==
    IF ~configured THEN FALSE
    ELSE IF post = "raise" THEN FALSE
    ELSE post = "200"

\* --------------------------------------------------------- the dedup filter
\* st.session_state.sent_signals.get(sym)
get(d, key) == IF key \in DOMAIN d THEN d[key] ELSE None

\* sent_signals[sym] = value
put(d, key, value) == [x \in DOMAIN d \cup {key} |-> IF x = key THEN value ELSE d[x]]

\* Lines 232-242: t is datetime.now() at the comparison.
send_allowed(last_sent, t) ==
    IF last_sent = None THEN TRUE
    ELSE IF strptime(last_sent) = None THEN TRUE
    ELSE (t - strptime(last_sent).t) > CoolDownTicks

\* A send block that takes the entries of this run back when the send fails.
after_send_rollback(d, alerts, ok) ==
    IF ok THEN d
    ELSE [x \in DOMAIN d \ {alerts[i].symbol : i \in 1..Len(alerts)} |-> d[x]]

\* What the send block (lines 248-260) does to sent_signals: nothing, whether
\* the send succeeded or not.
after_send(d, alerts, ok) == d

\* ------------------------------------------------------------------- inputs
SymbolNames == {"A", "B"}

\* The Volume column of n rows: base everywhere, base + bump in row bumpAt,
\* last in the latest row.
VolumeColumn(n, base, bumpAt, bump, last) ==
    [i \in 1..n |-> IF i = n THEN last
                    ELSE IF i = bumpAt THEN base + bump ELSE base]

NoTies == [price |-> FALSE, sl |-> FALSE, tp |-> FALSE]

Frame(close, e20, e50, rsi, volume, numeric, ties) ==
    [kind |-> "frame", Close |-> close, EMA20 |-> e20, EMA50 |-> e50,
     RSI |-> rsi, Volume |-> volume, numeric |-> numeric, ties |-> ties]

Raise == [kind |-> "raise"]

Empty == [kind |-> "empty"]

\* Frames that give a BUY of volume 50 and a SELL of volume 60.
BuyFrame ==
    Frame(100000, 2, 1, 60 * RsiScale, VolumeColumn(30, 10, 0, 0, 50), TRUE, NoTies)

SellFrame ==
    Frame(250000, 1, 2, 40 * RsiScale, VolumeColumn(31, 10, 0, 0, 60), TRUE, NoTies)

\* The provider's answers in the runs that exercise the alerts: the fetch of a
\* symbol fails or gives its signal, a BUY for "A" and a SELL for the others.
AlertCatalogue ==
    [s \in SymbolNames |-> IF s = "A" THEN {Raise, BuyFrame} ELSE {Raise, SellFrame}]

\* The provider's answers in the runs that exercise the scan: a failed fetch,
\* no data, 10 bars, cells that are no numbers, no signal, and signals.
ScanCatalogue ==
    [s \in SymbolNames |->
    { Raise, Empty,
      Frame(100000, 2, 1, 60 * RsiScale, VolumeColumn(10, 10, 0, 0, 50), TRUE, NoTies),
      Frame(100000, 2, 1, 60 * RsiScale, VolumeColumn(30, 10, 0, 0, 50), FALSE, NoTies),
      Frame(100000, 2, 1, 60 * RsiScale, VolumeColumn(30, 10, 0, 0, 15), TRUE, NoTies),
      BuyFrame, SellFrame,
      Frame(300000, 2, 1, 70 * RsiScale, VolumeColumn(40, 10, 0, 0, 60), TRUE, NoTies) }]

\* The symbol lists of a run (from nifty200.csv, the fallback or an upload).
RECURSIVE SeqsUpTo(_)
SeqsUpTo(n) ==
    IF n = 0 THEN {<<>>}
    ELSE SeqsUpTo(n - 1)
         \cup {Append(s, x) : s \in {q \in SeqsUpTo(n - 1) : Len(q) = n - 1},
                              x \in SymbolNames}

SymbolLists == SeqsUpTo(MaxLen)

Range(s) == {s[i] : i \in 1..Len(s)}

\* How far the clock moves between two runs: half a second, an hour, or one
\* tick less than the 24 hours.
Advances == {TicksPerSecond \div 2, HourTicks, CoolDownTicks - 1}

\* -------------------------------------------------------------------- state
VARIABLES
    pc,            \* where the script run is: idle, scan, dedup, send
    now,           \* datetime.now(), in ticks
    advances,      \* how often the clock has moved
    provider,      \* symbol -> what yf.download answers during this run
    symbols,       \* the list scanned (line 211)
    limit,         \* scan_count
    idx,           \* scan_symbols: position of the next symbol
    results,       \* scan_symbols: the list built
    k,             \* position of the dedup loop in results
    new_alerts,    \* the eligible results of this run
    sent_signals,  \* st.session_state.sent_signals: symbol -> stamp
    last_run,      \* st.session_state.last_run
    sent,          \* what send_telegram returned in this run, "none" before
    notified_at    \* symbol -> the tick at which its stamp was written

vars == <<pc, now, advances, provider, symbols, limit, idx, results,
          k, new_alerts, sent_signals, last_run, sent, notified_at>>

NoProvider == [s \in {} |-> Raise]

Init ==
    /\ pc = "idle"
    /\ now = 0
    /\ advances = 0
    /\ provider = NoProvider
    /\ symbols = <<>>
    /\ limit = 0
    /\ idx = 0
    /\ results = <<>>
    /\ k = 0
    /\ new_alerts = <<>>
    /\ sent_signals = [s \in {} |-> None]
    /\ last_run = None
    /\ sent = "none"
    /\ notified_at = [s \in {} |-> 0]

\* The script's locals are gone when the run is over.
EndRun ==
    /\ pc' = "idle"
    /\ provider' = NoProvider
    /\ symbols' = <<>>
    /\ limit' = 0
    /\ idx' = 0
    /\ results' = <<>>
    /\ k' = 0
    /\ new_alerts' = <<>>

\* Time passes between two runs of the script (the auto-refresh interval, the
\* wait for a click).
Advance ==
    /\ pc = "idle"
    /\ advances < MaxAdvances
    /\ \E d \in Advances : now' = now + d
    /\ advances' = advances + 1
    /\ UNCHANGED <<pc, provider, symbols, limit, idx, results, k,
                   new_alerts, sent_signals, last_run, sent, notified_at>>

\* A run of the script up to the call of scan_symbols (lines 193-214), with
\* the provider answering from catalogue.  A run with auto mode off and no
\* click scans nothing and changes nothing.
StartRun(catalogue) ==
    /\ pc = "idle"
    /\ \E auto_mode \in BOOLEAN, start_manual \in BOOLEAN,
          list \in SymbolLists, scan_count \in 1..MaxLen :
         LET do_scan == start_manual \/ auto_mode
         IN  /\ do_scan
             /\ symbols' = Take(list, scan_count)
             /\ limit' = scan_count
             /\ provider' \in {f \in [Range(Take(list, scan_count)) -> UNION {catalogue[s] : s \in SymbolNames}] :
                                 \A s \in DOMAIN f : f[s] \in catalogue[s]}
    /\ pc' = "scan"
    /\ idx' = 1
    /\ results' = <<>>
    /\ sent' = "none"
    /\ UNCHANGED <<now, advances, k, new_alerts, sent_signals,
                   last_run, notified_at>>

\* One pass of the loop of scan_symbols (lines 127-132).
ScanStep ==
    /\ pc = "scan"
    /\ idx <= Len(Take(symbols, limit))
    /\ LET sym == Take(symbols, limit)[idx]
           res == compute_signals_for_symbol(sym, provider[sym], now)
       IN  results' = scan_iteration(results, res)
    /\ idx' = idx + 1
    /\ UNCHANGED <<pc, now, advances, provider, symbols, limit, k,
                   new_alerts, sent_signals, last_run, sent, notified_at>>

\* scan_symbols returns (lines 133, 216-227).
ScanDone ==
    /\ pc = "scan"
    /\ idx > Len(Take(symbols, limit))
    /\ last_run' = strftime(now)
    /\ IF results = <<>>
       THEN EndRun
       ELSE /\ pc' = "dedup"
            /\ k' = 1
            /\ new_alerts' = <<>>
            /\ UNCHANGED <<provider, symbols, limit, idx, results>>
    /\ UNCHANGED <<now, advances, sent_signals, sent, notified_at>>

\* One pass of the dedup loop (lines 228-246).  The clock is read at the
\* comparison and again for the stamp, d ticks later.
DedupStep ==
    /\ pc = "dedup"
    /\ k <= Len(results)
    /\ \E d \in {0, 1} :
         LET r == results[k]
             sym == r.symbol
             last_sent == get(sent_signals, sym)
         IN  /\ d = 1 => advances < MaxAdvances
             /\ now' = now + d
             /\ advances' = advances + d
             /\ IF send_allowed(last_sent, now)
                THEN /\ new_alerts' = Append(new_alerts, r)
                     /\ sent_signals' = put(sent_signals, sym, strftime(now + d))
                     /\ notified_at' = put(notified_at, sym, now + d)
                ELSE UNCHANGED <<new_alerts, sent_signals, notified_at>>
    /\ k' = k + 1
    /\ UNCHANGED <<pc, provider, symbols, limit, idx, results, last_run, sent>>

\* The loop is over (lines 248, 259-260).
DedupDone ==
    /\ pc = "dedup"
    /\ k > Len(results)
    /\ IF new_alerts # <<>>
       THEN /\ pc' = "send"
            /\ UNCHANGED <<provider, symbols, limit, idx, results, k, new_alerts>>
       ELSE EndRun
    /\ UNCHANGED <<now, advances, sent_signals, last_run, sent, notified_at>>

\* format_alert_message and the one call of send_telegram (lines 249-258).
\* The secrets are read anew by every run of the script (lines 18-19).
Send ==
    /\ pc = "send"
    /\ \E configured \in BOOLEAN, post \in {"200", "other", "raise"} :
         LET ok == send_telegram(configured, post)
         IN  /\ sent' = IF ok THEN "ok" ELSE "failed"
             /\ sent_signals' = after_send(sent_signals, new_alerts, ok)
    /\ EndRun
    /\ UNCHANGED <<now, advances, last_run, notified_at>>

StartAlertRun == StartRun(AlertCatalogue)

StartScanRun == StartRun(ScanCatalogue)

\* The application, with the clock moving and the provider's answers that
\* matter to the alerts.
Next ==
    \/ Advance
    \/ StartAlertRun
    \/ ScanStep
    \/ ScanDone
    \/ DedupStep
    \/ DedupDone
    \/ Send

Spec == Init /\ [][Next]_vars

\* The application at one instant, with every kind of answer of the provider.
NextScan ==
    \/ StartScanRun
    \/ ScanStep
    \/ ScanDone
    \/ DedupStep
    \/ DedupDone
    \/ Send

SpecScan == Init /\ [][NextScan]_vars

\* ----------------------------------------------- one symbol, every input
Closes == {0 - 1000, 0, 4, 100, 250, 1005, 100000}

TieProne == {100, 250, 1005}

TieChoices(close) ==
    IF close \in TieProne
    THEN [price : BOOLEAN, sl : BOOLEAN, tp : BOOLEAN]
    ELSE {NoTies}

Averages == {<<1, 2>>, <<2, 1>>, <<2, 2>>}

Oscillators ==
    {NaN, 0, 45 * RsiScale - 1, 45 * RsiScale, 45 * RsiScale + 1,
     55 * RsiScale - 1, 55 * RsiScale, 55 * RsiScale + 1,
     56 * RsiScale - 1, 56 * RsiScale, 100 * RsiScale - 1}

Lengths == {30, 35}

BaseVolumes == {0, 10}

\* The row, counted back from the latest, whose volume is 20 above the base
\* (0: no such row; 1, 20: inside the 20 bars before the latest; 21: before them).
BumpedRows == {0, 1, 20, 21}

LatestVolumes == {0, 20, 21, 22, 23, 50}

\* The answers that end before the signal is computed.
EarlyInputs ==
    {Raise, Empty}
    \cup {Frame(100000, 2, 1, 60 * RsiScale, VolumeColumn(n, 10, 0, 0, 50), TRUE, NoTies) :
             n \in {0, 10, 29}}
    \cup {Frame(100000, 2, 1, 60 * RsiScale, VolumeColumn(30, 10, 0, 0, 50), FALSE, NoTies)}

\* scan_symbols about to compute the signal of its one symbol.
InitSymbol ==
    /\ pc = "scan"
    /\ now = 0
    /\ advances = 0
    /\ \/ \E r \in EarlyInputs : provider = [s \in {"A"} |-> r]
       \/ \E c \in Closes, e \in Averages, r \in Oscillators, n \in Lengths,
             base \in BaseVolumes, back \in BumpedRows, last \in LatestVolumes :
            \E t \in TieChoices(c) :
              provider = [s \in {"A"} |->
                            Frame(c, e[1], e[2], r,
                                  VolumeColumn(n, base, n - back, 20, last), TRUE, t)]
    /\ symbols = <<"A">>
    /\ limit = 1
    /\ idx = 1
    /\ results = <<>>
    /\ k = 0
    /\ new_alerts = <<>>
    /\ sent_signals = [s \in {} |-> None]
    /\ last_run = None
    /\ sent = "none"
    /\ notified_at = [s \in {} |-> 0]

NextSymbol == ScanStep

SpecSymbol == InitSymbol /\ [][NextSymbol]_vars

\* ------------------------------------------------------------------ claims
\* The symbols scan_symbols has dealt with in this run, and what it kept.
Scanned == {symbols[i] : i \in 1..(idx - 1)}

ResultsOf(s) == {results[i] : i \in {j \in 1..Len(results) : results[j].symbol = s}}

\* The answer of the provider gets as far as the signal rules (line 77).
ReachesRules(resp) ==
    resp.kind = "frame" /\ Len(resp.Volume) >= 30 /\ resp.numeric

RECURSIVE SumRows(_, _, _)
SumRows(col, from, to) ==
    IF from > to THEN 0 ELSE col[from] + SumRows(col, from + 1, to)

\* C2 (as claimed, for the positive closing prices): every BUY result has
\* sl < price < tp and every SELL result has tp < price < sl, on the rounded
\* values it carries.
C2_RiskInvariant ==
    \A i \in 1..Len(results) :
        LET r == results[i]
        IN  provider[r.symbol].Close > 0 =>
              /\ r.signal = "BUY" => (r.sl < r.price /\ r.price < r.tp)
              /\ r.signal = "SELL" => (r.tp < r.price /\ r.price < r.sl)

\* C3: a scanned symbol whose data reach the rules gets a BUY exactly when
\* ema20 > ema50, rsi is defined and above 55 and there is a volume spike, a
\* SELL exactly when ema20 < ema50, rsi is defined and below 45 and there is a
\* volume spike, never both, and otherwise no result.
C3_DirectionRule ==
    \A s \in Scanned :
        LET h == provider[s]
            buys == {r \in ResultsOf(s) : r.signal = "BUY"}
            sells == {r \in ResultsOf(s) : r.signal = "SELL"}
            spike == vol_spike(h)
        IN  ReachesRules(h) =>
              /\ (buys # {}) <=> (h.EMA20 > h.EMA50 /\ h.RSI # NaN
                                    /\ h.RSI > 55 * RsiScale /\ spike)
              /\ (sells # {}) <=> (h.EMA20 < h.EMA50 /\ h.RSI # NaN
                                     /\ h.RSI < 45 * RsiScale /\ spike)
              /\ ~(buys # {} /\ sells # {})
              /\ ResultsOf(s) = buys \cup sells
              /\ (h.EMA20 = h.EMA50 \/ h.RSI = NaN \/ h.RSI = 55 * RsiScale
                    \/ h.RSI = 45 * RsiScale) => ResultsOf(s) = {}

\* A symbol with a spike, ema20 > ema50 and rsi exactly 55 was scanned.
C3_Witness ==
    \E s \in Scanned :
        /\ ReachesRules(provider[s])
        /\ vol_spike(provider[s])
        /\ provider[s].EMA20 > provider[s].EMA50
        /\ provider[s].RSI = 55 * RsiScale

\* C7 (as claimed): a symbol whose latest closing price is zero or negative
\* contributes no result.
C7_NonPositivePriceRejected ==
    \A s \in Scanned :
        (provider[s].kind = "frame" /\ provider[s].Close <= 0) => ResultsOf(s) = {}

\* The reasons of result r are the spike label, the trend-up label and the
\* RSI text, in this order, with the RSI text showing at least lowest.
BuyReasons(r, lowest) ==
    /\ \E a, b, c \in 1..Len(r.reasons) :
          /\ a < b /\ b < c
          /\ r.reasons[a] = text("Volume spike")
          /\ r.reasons[b] = text("20>50 EMA")
          /\ "int" \in DOMAIN r.reasons[c]
          /\ r.reasons[c].text = "RSI "
          /\ r.reasons[c].int >= lowest
    /\ \A a \in 1..Len(r.reasons) : r.reasons[a] # text("20<50 EMA")

\* C8 (as claimed): the reasons of every BUY hold the spike label, '20>50 EMA'
\* and 'RSI n' in this order, without '20<50 EMA', and n is at least 56.
C8_BuyReasons56 ==
    \A i \in 1..Len(results) :
        results[i].signal = "BUY" => BuyReasons(results[i], 56)

\* C8 (amended): the same, with n at least 55: int() cuts an rsi between 55
\* and 56 down to 55.
C8_BuyReasons55 ==
    \A i \in 1..Len(results) :
        results[i].signal = "BUY" => BuyReasons(results[i], 55)

\* A BUY whose rsi lies between 55 and 56.
C8_Witness ==
    \E i \in 1..Len(results) :
        /\ results[i].signal = "BUY"
        /\ provider[results[i].symbol].RSI > 55 * RsiScale
        /\ provider[results[i].symbol].RSI < 56 * RsiScale

\* C10: for a scanned symbol whose data reach the rules, avg_vol is the mean
\* of the 20 volumes before the latest one, and there is a spike exactly when
\* that mean is positive and the latest volume is more than twice it; a result
\* is only made with a spike and carries that mean, cut to an integer.
C10_VolumeSpike ==
    \A s \in Scanned :
        LET h == provider[s]
            n == Len(h.Volume)
            total == SumRows(h.Volume, n - 20, n - 1)
            rule == total > 0 /\ 20 * h.Volume[n] > 2 * total
            trend == h.EMA20 # h.EMA50
            momentum == h.RSI # NaN
                        /\ IF h.EMA20 > h.EMA50 THEN h.RSI > 55 * RsiScale
                                                ELSE h.RSI < 45 * RsiScale
        IN  ReachesRules(h) =>
              /\ avg_vol(h).num * 20 = total * avg_vol(h).den
              /\ vol_spike(h) <=> rule
              /\ (trend /\ momentum) => ((ResultsOf(s) # {}) <=> rule)
              /\ \A r \in ResultsOf(s) :
                    rule /\ r.avg_vol = total \div 20 /\ r.vol = h.Volume[n]

\* A result for data whose volume is raised in the row just before the 20 bars
\* and whose latest volume is above twice the mean of the 20 bars only.
C10_Witness ==
    \E s \in Scanned :
        LET h == provider[s]
            n == Len(h.Volume)
        IN  /\ ReachesRules(h)
            /\ ResultsOf(s) # {}
            /\ h.Volume[n - 21] > h.Volume[n - 20]
            /\ 21 * h.Volume[n] <= 2 * SumRows(h.Volume, n - 21, n - 1)

\* The dedup loop is passing the result at position k.
DedupPass == pc = "dedup" /\ k' = k + 1

\* That result is found eligible.
Eligible == Len(new_alerts') = Len(new_alerts) + 1

\* C1 (as claimed): in every pass of the dedup loop, a symbol without an
\* entry in sent_signals is eligible, a symbol whose entry was written 24
\* hours ago or less is not, and a symbol whose entry was written more than
\* 24 hours ago is.
C1_DedupWindow ==
    [][DedupPass =>
         LET s == results[k].symbol
         IN  /\ (s \notin DOMAIN sent_signals => Eligible)
             /\ ((s \in DOMAIN sent_signals /\ now - notified_at[s] <= CoolDownTicks)
                   => ~Eligible)
             /\ ((s \in DOMAIN sent_signals /\ now - notified_at[s] > CoolDownTicks)
                   => Eligible)]_vars

\* A fetch that failed or a history that is too short.
Failing(resp) == resp.kind \in {"raise", "empty"} \/ Len(resp.Volume) < 30

WithoutTime(r) == [f \in DOMAIN r \ {"time"} |-> r[f]]

WithoutTimes(rs) == [i \in 1..Len(rs) |-> WithoutTime(rs[i])]

\* C4: whatever the symbols yield, each pass of the scan takes the next
\* symbol of the list (the position goes up by one, at most once per symbol),
\* the scan ends when and only when every symbol has been taken, a failing
\* symbol leaves no result, and the results are those of the scan of the list
\* without the failing symbols.
C4_FailureIsolation ==
    /\ [](pc = "scan" => idx \in 1..(Len(symbols) + 1))
    /\ [](pc \in {"dedup", "send"} => idx = Len(symbols) + 1)
    /\ [](LET visited == SubSeq(symbols, 1, idx - 1)
              Sound(s) == ~Failing(provider[s])
          IN  /\ \A s \in Scanned : Failing(provider[s]) => ResultsOf(s) = {}
              /\ WithoutTimes(results)
                   = WithoutTimes(scan_symbols(SelectSeq(visited, Sound),
                                               limit, provider, now)))
    /\ [][/\ ((pc = "scan" /\ pc' = "scan") =>
                 (idx <= Len(symbols) /\ idx' = idx + 1))
           /\ ((pc = "scan" /\ pc' # "scan") => idx = Len(symbols) + 1)]_vars

\* A scan is over in which the first symbol failed and a later one gave a result.
C4_Witness ==
    /\ pc = "dedup"
    /\ Len(symbols) > 1
    /\ Failing(provider[symbols[1]])
    /\ results # <<>>

\* C5: send_telegram is called only with an eligible result, after the
\* entries of all eligible results of the run were written; it is called once,
\* it ends the run and leaves sent_signals as it is whether it fails or not;
\* and a symbol whose entry is more than 24 hours old is eligible again.
C5_SendFailureKeepsState ==
    /\ [](pc = "send" =>
            /\ new_alerts # <<>>
            /\ sent = "none"
            /\ \A i \in 1..Len(new_alerts) :
                  LET a == new_alerts[i]
                  IN  /\ a.symbol \in DOMAIN sent_signals
                      /\ sent_signals[a.symbol].stamp >= a.time.stamp
                      /\ sent_signals[a.symbol] = strftime(notified_at[a.symbol]))
    /\ [][/\ ((sent' # sent /\ sent' # "none") =>
                 (pc = "send" /\ sent = "none" /\ pc' = "idle"
                  /\ sent_signals' = sent_signals))
           /\ ((pc = "send" /\ pc' # "send") => sent' \in {"ok", "failed"})
           /\ ((pc = "dedup" /\ pc' = "idle") => (new_alerts = <<>> /\ sent' = "none"))
           /\ ((DedupPass /\ results[k].symbol \in DOMAIN sent_signals
                 /\ now - notified_at[results[k].symbol] > CoolDownTicks) => Eligible)]_vars

\* A run is over whose send failed, and the entry written in it is in place.
C5_Witness ==
    /\ pc = "idle"
    /\ sent = "failed"
    /\ \E s \in DOMAIN sent_signals :
          notified_at[s] = now /\ sent_signals[s] = strftime(now)

\* C6 (as claimed): the results are ordered by descending volume.
C6_DescendingVolume ==
    \A i, j \in 1..Len(results) : i < j => results[i].vol >= results[j].vol

\* C6 (amended): the results are in the order of their symbols in the list,
\* whatever their volumes: their symbols are the scanned part of the list
\* without the symbols that gave no signal.
C6_ListOrder ==
    LET visited == SubSeq(symbols, 1, idx - 1)
        Directional(s) == ReachesRules(provider[s]) /\ signal(provider[s]) # "None"
    IN  [i \in 1..Len(results) |-> results[i].symbol] = SelectSeq(visited, Directional)

\* Two results, the second with the larger volume.
C6_Witness ==
    Len(results) = 2 /\ results[1].vol < results[2].vol

====
